---- MODULE Spec2Model ----
(***************************************************************************)
(* A model of ultimaker_logger.py: the ingestion pipeline that polls a     *)
(* list of printers for their print-job history, drops the jobs whose uuid *)
(* is already in the CSV log, appends the new ones to the log and mirrors  *)
(* them to a spreadsheet.                                                  *)
(*                                                                         *)
(* A behaviour is a sequence of runs of main(): UltimakerLogger(...) is    *)
(* constructed (Construct), collect_logs walks the printers (ResolveName,  *)
(* FetchPage) and ends in the sink step (SaveJobs or NoNewJobs).  The CSV  *)
(* file, the spreadsheet and the printers' histories outlive a run; every  *)
(* other variable is the state of one process.                             *)
(*                                                                         *)
(* Spec runs the program on printers whose system document has a name and  *)
(* whose jobs have two keys.  DetailSpec runs it once on a printer whose   *)
(* system document and whose jobs (timestamps, amounts, materials) are of  *)
(* every kind the normalizer tells apart.  FairSpec runs it once on long   *)
(* histories, with a process that keeps going.                             *)
(***************************************************************************)
EXTENDS Integers, Sequences, FiniteSets, TLC

(***************************************************************************)
(* Bounds of the model.                                                    *)
(***************************************************************************)
\* CONFIG['BATCH_SIZE'] (line 23) is 50 in the source; the model runs the
\* same loop with a small page size so that full, short and empty pages all
\* occur within histories of a few jobs.
BATCH_SIZE == 2

\* The jobs of all printers' histories together.
MaxJobs == 3

\* Runs of main() in one behaviour.
MaxRuns == 2

\* Requests, reads and writes that fail in one behaviour.
MaxFaults == 1

\* _update_google_sheets' batch_size (line 199) is 100 in the source; the
\* model uses a small one so that a mirror call of several batches occurs.
batch_size == 2

(***************************************************************************)
(* Python values.                                                          *)
(***************************************************************************)
\* None, and the result of dict.get for a key the dict does not have.
None == "<None>"

\* job.get(key, default)
JobGet(job, key, default) ==
    IF job[key] = None THEN default ELSE job[key]

(***************************************************************************)
(* The printers (printer_ips.txt, in file order) and what they answer.     *)
(***************************************************************************)
printer_ips == <<"ip1", "ip2">>

Printers == 1..Len(printer_ips)

\* f"Printer-{self.ip}"
SyntheticName(p) ==
    IF printer_ips[p] = "ip1" THEN "Printer-ip1" ELSE "Printer-ip2"

\* The name a printer reports in its system document.
ReportedName(p) ==
    IF printer_ips[p] = "ip1" THEN "Lab-A" ELSE "Lab-B"

\* What GET system can bring besides a transport failure: a document with a
\* name, a document whose name is null, a document without a name key, a
\* JSON value that is not a dict, and a body that is not JSON.
SystemResponses == {"named", "null", "noname", "nondict", "malformed"}

\* requests.get(...).json() inside make_request (lines 44-50): the value
\* make_request returns for what came over the wire.  A body that is not JSON
\* makes response.json() raise requests' JSONDecodeError, which is a
\* RequestException and is caught at line 48 like a transport failure.
make_request(wire) ==
    IF wire \in {"fail", "malformed"} THEN "{}" ELSE wire

\* A name property without the fallback to the synthetic name.
NameFor_NoFallback(p, response) ==
    IF response = "named" THEN ReportedName(p) ELSE None

\* Lines 36-39: the value _name takes for what make_request returned.
\* {}.get('name', default) is the default; a null name is None.
NameFor(p, response) ==
    CASE response = "named" -> ReportedName(p)
      [] response = "null"  -> None
      [] OTHER              -> SyntheticName(p)

\* A material amount of a raw job: the key is missing, a number, or a value
\* max() cannot compare with 0 (a string, null).
NoAmount == [kind |-> "missing", v |-> 0]

Num(n) == [kind |-> "num", v |-> n]

TextAmount == [kind |-> "text", v |-> 0]

\* Raw job entries a history page can hold: a dict with these two keys and
\* no other.  uuid = None stands for an entry without a uuid key.
RawJob(u, r) ==
    [ kind |-> "dict", uuid |-> u, result |-> r,
      datetime_started |-> None, datetime_finished |-> None,
      material_0_amount |-> NoAmount, material_1_amount |-> NoAmount,
      material_0_guid |-> None, material_1_guid |-> None ]

\* The jobs of the short histories.  Jobs that are not in a terminal state
\* are in LongPool (no result key) and in DetailPool (still printing).
JobPool ==
    { RawJob("u1", "Finished"),
      RawJob("u2", "Aborted"),
      RawJob(None, "Finished") }

RECURSIVE SeqsUpTo(_, _)
SeqsUpTo(S, n) ==
    IF n = 0 THEN { <<>> }
    ELSE LET shorter == SeqsUpTo(S, n - 1)
         IN  shorter \cup { Append(s, x) : s \in { t \in shorter : Len(t) = n - 1 }, x \in S }

\* The jobs of the long histories; the second one has no result key.
LongPool ==
    { RawJob("u1", "Finished"),
      RawJob("u2", None) }

\* The histories the printers can hold: at most MaxJobs entries in all, or
\* one printer with a longer history (up to two full pages and a short one)
\* of the jobs of LongPool.
Histories ==
    { h \in [Printers -> SeqsUpTo(JobPool, MaxJobs)] :
        Len(h[1]) + Len(h[2]) <= MaxJobs }
    \cup
    { h \in [Printers -> SeqsUpTo(LongPool, 2 * BATCH_SIZE + 1)] :
        \E p \in Printers :
            /\ Len(h[p]) > MaxJobs
            /\ \A q \in Printers \ {p} : h[q] = <<>> }

(***************************************************************************)
(* Timestamps and materials.                                               *)
(***************************************************************************)
\* The timestamps of the model that datetime.fromisoformat parses once
\* their 'Z' is replaced by '+00:00'; every other non-empty string raises
\* ValueError.
IsoTimestamps == {"2024-01-15T02:30:00Z", "2024-07-01T12:00:00Z"}

\* dt.date().isoformat() (line 155): the date of the UTC timestamp.
DateOf(ts) ==
    IF ts = "2024-01-15T02:30:00Z" THEN "2024-01-15" ELSE "2024-07-01"

\* dt.astimezone(ZoneInfo('America/Los_Angeles')).isoformat() (lines 225-226).
LocalTime(ts) ==
    IF ts = "2024-01-15T02:30:00Z" THEN "2024-01-14T18:30:00-08:00"
    ELSE "2024-07-01T05:00:00-07:00"

\* _convert_to_pst (lines 219-229): '' for a falsy argument, the local time
\* for a timestamp that parses, and the argument itself when parsing raises
\* (line 229).
_convert_to_pst(iso_timestamp) ==
    IF iso_timestamp \in {None, ""} THEN ""
    ELSE IF iso_timestamp \in IsoTimestamps THEN LocalTime(iso_timestamp)
    ELSE iso_timestamp

\* What GET materials/<guid> brings for the guids of the model: a JSON
\* string holding a material document ("xml"), one whose document has no
\* material element, one whose material element is empty, one that is not
\* XML, and a JSON dict.
MaterialResponse(guid) ==
    CASE guid = "g-pla"    -> "xml"
      [] guid = "g-nomat"  -> "xml_no_element"
      [] guid = "g-notext" -> "xml_no_text"
      [] guid = "g-junk"   -> "not_xml"
      [] OTHER             -> "dict"

\* The text of the material element of the document of "g-pla", and what
\* str.strip makes of it.
MaterialText == " PLA "

Strip(text) ==
    IF text = " PLA " THEN "PLA" ELSE text

(***************************************************************************)
(* The CSV log.                                                            *)
(***************************************************************************)
\* Of the twelve fields of lines 176-180 the model carries ten, in the order
\* of the source; 'name' and 'time_total' are copied from the job like 'result'.
fieldnames ==
    << "uuid", "printer_name", "date", "datetime_started", "datetime_finished",
       "result", "material_0_amount", "material_1_amount",
       "material_0_name", "material_1_name" >>

\* What csv.DictWriter.writeheader writes: a row whose cells are the field names.
HeaderRow ==
    [ uuid |-> "uuid", printer_name |-> "printer_name", date |-> "date",
      datetime_started |-> "datetime_started",
      datetime_finished |-> "datetime_finished", result |-> "result",
      material_0_amount |-> "material_0_amount",
      material_1_amount |-> "material_1_amount",
      material_0_name |-> "material_0_name",
      material_1_name |-> "material_1_name" ]

\* What csv.DictWriter writes for one record: the text of every cell.  A
\* None is written as the empty string, a number as its digits.
CsvRow(rec) ==
    [ uuid |-> rec.uuid,
      printer_name |-> IF rec.printer_name = None THEN "" ELSE rec.printer_name,
      date |-> rec.date,
      datetime_started |-> rec.datetime_started,
      datetime_finished |-> rec.datetime_finished,
      result |-> rec.result,
      material_0_amount |-> ToString(rec.material_0_amount),
      material_1_amount |-> ToString(rec.material_1_amount),
      material_0_name |-> rec.material_0_name,
      material_1_name |-> rec.material_1_name ]

NoFile == [exists |-> FALSE, rows |-> <<>>]

VARIABLES
    pc,              \* where the process is: "idle", "name", "page", "sink"
    run,             \* runs of main() started so far
    history,         \* printer -> the job entries its history holds
    device,          \* printer -> what its GET system brings
    csv,             \* the log file: [exists, rows]
    sheet,           \* the rows of the remote spreadsheet
    existing_uuids,  \* UltimakerLogger.existing_uuids
    _name,           \* printer -> PrinterAPI._name
    pi,              \* the printer the for loop of collect_logs is at
    offset,          \* collect_logs' offset
    all_print_jobs,  \* collect_logs' all_print_jobs
    requests,        \* the requests sent in this run, in order
    trace,           \* what this run did, for the properties below
    prev,            \* of the run before this one: how it ended
    created,         \* how the log file came to exist: "no", "header", "bare"
    faults           \* the failures so far

vars == <<pc, run, history, device, csv, sheet, existing_uuids, _name, pi, offset,
          all_print_jobs, requests, trace, prev, created, faults>>

\* A step in which n things fail.
Fails(n) ==
    /\ faults + n <= MaxFaults
    /\ faults' = faults + n

\* An __init__ that does not read the log.
_load_existing_uuids_NotLoaded(file, read_ok) ==
    {}

\* The rows csv.DictReader yields for the file, as the set of values of their
\* 'uuid' key.  DictReader takes the first row of the file as the field
\* names, whatever it holds: a KeyError (no column is named uuid) is caught
\* by the except clause, as is an error of the read itself.
_load_existing_uuids(file, read_ok) ==
    IF ~file.exists THEN {}
    ELSE IF ~read_ok \/ file.rows = <<>> THEN {}
    ELSE LET names == Head(file.rows)
             cols  == { i \in DOMAIN fieldnames : names[fieldnames[i]] = "uuid" }
             data  == Tail(file.rows)
         IN  IF data = <<>> THEN {}
             ELSE IF cols = {} THEN {}
             ELSE LET col == fieldnames[CHOOSE i \in cols : \A j \in cols : j <= i]
                  IN  { data[i][col] : i \in DOMAIN data } \ {""}

\* One entry of the request log.  slot is the material slot a materials
\* request is for, -1 for the other requests.
Request(p, endpoint, o, c, got, slot) ==
    [ printer |-> p, endpoint |-> endpoint, offset |-> o, count |-> c,
      got |-> got, slot |-> slot ]

\* PrinterAPI.name (lines 32-40) read when _name is `cached` and GET system
\* would bring `wire`: the value returned, which is also the value _name
\* has afterwards, and whether the request was sent.
NameRead(p, cached, wire) ==
    IF cached # None THEN [value |-> cached, sent |-> FALSE]
    ELSE [value |-> NameFor(p, make_request(wire)), sent |-> TRUE]

\* A get_material_name without the test of line 53.
get_material_name_AlwaysAsks(material_guid, fail) ==
    [ sent |-> TRUE, value |-> <<"Unknown">> ]

\* get_material_name (lines 52-67): <<name>> for the string returned, <<>>
\* when the call raises, and whether the materials request was sent.  A
\* material element without text has text None, and None.strip() raises
\* AttributeError, which neither except clause of the function catches.
get_material_name(material_guid, fail) ==
    IF material_guid \in {None, ""}
    THEN [ sent |-> FALSE, value |-> <<"Unknown">> ]
    ELSE LET response ==
                 make_request(IF fail THEN "fail"
                              ELSE MaterialResponse(material_guid))
         IN  [ sent  |-> TRUE,
               value |-> CASE response = "xml"         -> <<Strip(MaterialText)>>
                           [] response = "xml_no_text" -> <<>>
                           [] OTHER                    -> <<"Unknown">> ]

\* max(0, job.get(key, 0)) (lines 166-167) for an amount max() can compare.
Max0(amount) ==
    IF amount.kind = "num" /\ amount.v > 0 THEN amount.v ELSE 0

\* The try block of _process_print_job (lines 150-173), in the order Python
\* evaluates it: the start date (an unparseable start raises at line 154),
\* printer.name, the two conversions, the two amounts (max() raises
\* TypeError), the two material names.  An exception ends the block with
\* None (line 173); the requests sent before it stay sent.  w is what the
\* network does during the call: what GET system would bring, and whether
\* the materials request of either slot fails.  The result: out (<<>> is
\* None, <<record>> a record), the value of _name afterwards, what
\* printer.name returned if it was read and what its request brought, the
\* requests sent and how many of them failed.
TryBlock(p, job, cached, w) ==
    LET started == JobGet(job, "datetime_started", "")
        nr      == NameRead(p, cached, w.system)
        a0      == job.material_0_amount
        a1      == job.material_1_amount
        m0      == get_material_name(JobGet(job, "material_0_guid", ""), w.m0)
        m1      == get_material_name(JobGet(job, "material_1_guid", ""), w.m1)
        q0      == IF nr.sent THEN <<Request(p, "system", 0, 0, 0, -1)>> ELSE <<>>
        q1      == IF m0.sent THEN <<Request(p, "materials", 0, 0, 0, 0)>> ELSE <<>>
        q2      == IF m1.sent THEN <<Request(p, "materials", 0, 0, 0, 1)>> ELSE <<>>
        f0      == IF nr.sent /\ w.system = "fail" THEN 1 ELSE 0
        f1      == IF m0.sent /\ w.m0 THEN 1 ELSE 0
        f2      == IF m1.sent /\ w.m1 THEN 1 ELSE 0
        rd      == << [ value |-> nr.value,
                        wire  |-> IF nr.sent THEN w.system ELSE "cached" ] >>
        Raised(name, read, reqs, nfail) ==
            [ out |-> <<>>, name |-> name, read |-> read, reqs |-> reqs,
              nfail |-> nfail ]
    IN  IF started # "" /\ started \notin IsoTimestamps
        THEN Raised(cached, <<>>, <<>>, 0)
        ELSE IF a0.kind = "text" \/ a1.kind = "text"
        THEN Raised(nr.value, rd, q0, f0)
        ELSE IF m0.value = <<>>
        THEN Raised(nr.value, rd, q0 \o q1, f0 + f1)
        ELSE IF m1.value = <<>>
        THEN Raised(nr.value, rd, q0 \o q1 \o q2, f0 + f1 + f2)
        ELSE [ out |-> << [ uuid |-> JobGet(job, "uuid", ""),
                            printer_name |-> nr.value,
                            date |-> IF started = "" THEN "" ELSE DateOf(started),
                            datetime_started |->
                                _convert_to_pst(JobGet(job, "datetime_started", "")),
                            datetime_finished |->
                                _convert_to_pst(JobGet(job, "datetime_finished", "")),
                            result |-> JobGet(job, "result", ""),
                            material_0_amount |-> Max0(a0),
                            material_1_amount |-> Max0(a1),
                            material_0_name |-> m0.value[1],
                            material_1_name |-> m1.value[1] ] >>,
               name |-> nr.value, read |-> rd,
               reqs |-> q0 \o q1 \o q2, nfail |-> f0 + f1 + f2 ]

\* A normalizer without the test of line 142.
_process_print_job_NoFilter(p, job, cached, w) ==
    TryBlock(p, job, cached, w)

\* The normalizer (lines 139-173).  A job whose result is not a terminal one
\* is skipped before anything else is done.
_process_print_job(p, job, cached, w) ==
    IF JobGet(job, "result", None) \notin {"Finished", "Aborted"}
    THEN [ out |-> <<>>, name |-> cached, read |-> <<>>, reqs |-> <<>>,
           nfail |-> 0 ]
    ELSE TryBlock(p, job, cached, w)

\* A collect_logs without the membership test of line 127.
IsNew_NoDedup(job, known) ==
    TRUE

\* Line 127: the record is kept when the raw uuid is not a known one.
IsNew(job, known) ==
    job.uuid \notin known

\* What the network can do while one entry is normalized: GET system is
\* sent only while _name is None, a materials request only for a guid that
\* is not empty.
Wires(p, job, cached) ==
    [ system : IF cached = None THEN {"fail", device[p]} ELSE {device[p]},
      m0     : IF JobGet(job, "material_0_guid", "") = "" THEN {FALSE} ELSE BOOLEAN,
      m1     : IF JobGet(job, "material_1_guid", "") = "" THEN {FALSE} ELSE BOOLEAN ]

\* A for loop that puts a new record in front of the batch.
EntryStep_Prepend(p, job, st, w) ==
    LET processed_job == _process_print_job(p, job, st.name, w)
        keep == /\ job.kind = "dict"
                /\ processed_job.out # <<>>
                /\ IsNew(job, existing_uuids)
    IN  [ batch |-> IF keep THEN processed_job.out \o st.batch ELSE st.batch,
          name  |-> processed_job.name,
          reqs  |-> st.reqs \o processed_job.reqs,
          nfail |-> st.nfail + processed_job.nfail,
          steps |-> Append(st.steps, [ job |-> job,
                                       out |-> processed_job.out,
                                       read |-> processed_job.read,
                                       reqs |-> processed_job.reqs,
                                       called |-> job.kind = "dict",
                                       w |-> w,
                                       kept |-> keep ]) ]

\* A for loop that a skipped entry ends: the entries after it are passed
\* over.
EntryStep_StopAtSkip(p, job, st, w) ==
    LET stopped == \E i \in DOMAIN st.steps : st.steps[i].out = <<>>
        processed_job == _process_print_job(p, job, st.name, w)
        keep == /\ job.kind = "dict"
                /\ processed_job.out # <<>>
                /\ IsNew(job, existing_uuids)
    IN  IF stopped THEN st
        ELSE [ batch |-> IF keep THEN st.batch \o processed_job.out ELSE st.batch,
               name  |-> processed_job.name,
               reqs  |-> st.reqs \o processed_job.reqs,
               nfail |-> st.nfail + processed_job.nfail,
               steps |-> Append(st.steps, [ job |-> job,
                                            out |-> processed_job.out,
                                            read |-> processed_job.read,
                                            reqs |-> processed_job.reqs,
                                            called |-> job.kind = "dict",
                                            w |-> w,
                                            kept |-> keep ]) ]

\* The body of the for loop for one entry (lines 125-130).  st is the state
\* the loop carries: the batch, _name, the requests sent and failed so far
\* in this page, and a log of the entries: the entry, what the normalizer
\* returned, what printer.name returned, the requests sent for the entry,
\* whether the normalizer was called, what the network did and whether the
\* record was appended.
EntryStep(p, job, st, w) ==
    IF job.kind # "dict"
    THEN [st EXCEPT !.steps = Append(@, [ job |-> job, out |-> <<>>,
                                          read |-> <<>>, reqs |-> <<>>,
                                          called |-> FALSE, w |-> w,
                                          kept |-> FALSE ])]
    ELSE LET processed_job == _process_print_job(p, job, st.name, w)
             keep == processed_job.out # <<>> /\ IsNew(job, existing_uuids)
         IN  [ batch |-> IF keep THEN st.batch \o processed_job.out ELSE st.batch,
               name  |-> processed_job.name,
               reqs  |-> st.reqs \o processed_job.reqs,
               nfail |-> st.nfail + processed_job.nfail,
               steps |-> Append(st.steps, [ job |-> job,
                                            out |-> processed_job.out,
                                            read |-> processed_job.read,
                                            reqs |-> processed_job.reqs,
                                            called |-> TRUE,
                                            w |-> w,
                                            kept |-> keep ]) ]

\* The for loop over one page (lines 124-130): the states it can end in
\* from one of the states sts, whatever the network does.
RECURSIVE ProcessPage(_, _, _)
ProcessPage(p, page, sts) ==
    IF page = <<>> THEN sts
    ELSE ProcessPage(p, Tail(page),
             UNION { { EntryStep(p, Head(page), st, w) :
                         w \in Wires(p, Head(page), st.name) } : st \in sts })

Min(a, b) ==
    IF a < b THEN a ELSE b

\* What a printer of history h answers to history/print_jobs?offset=o&count=c.
PageOf(h, o, c) ==
    SubSeq(h, o + 1, Min(Len(h), o + c))

\* The record of a run that has done nothing yet: the log and the sheet as
\* the run found them, whether the log was read, existing_uuids as __init__
\* left it, what printer.name returned at line 114, the history requests
\* that failed, the entries of the pages fetched per printer and what the
\* for loop did with each, and what the sink step did: whether and how
\* often _save_jobs was called, with what, and the calls the mirror made.
NoTrace ==
    [ start_csv  |-> NoFile,
      start_sheet |-> <<>>,
      read_ok    |-> TRUE,
      unanswered |-> 0,
      known      |-> {},
      line114    |-> [p \in Printers |-> <<>>],
      normalized |-> [p \in Printers |-> <<>>],
      steps      |-> [p \in Printers |-> <<>>],
      saved      |-> FALSE,
      saves      |-> 0,
      mirror_calls |-> <<>>,
      batch      |-> <<>>,
      csv_before |-> NoFile,
      write      |-> "none",
      mirror     |-> "none",
      raised     |-> FALSE ]

\* What is kept of a run when the next one begins: whether _save_jobs was
\* called, what became of the log write, and the history requests that
\* failed.
Outcome(t) ==
    [ saved |-> t.saved, write |-> t.write, unanswered |-> t.unanswered ]

\* Before the first run: no log file, an empty spreadsheet, and printers
\* that hold their histories.  (printer_ips.txt exists: without it __init__
\* exits at line 84 and nothing below happens.)
Init ==
    /\ pc = "idle"
    /\ run = 0
    /\ history \in Histories
    /\ device = [p \in Printers |-> "named"]
    /\ csv = NoFile
    /\ sheet = <<>>
    /\ existing_uuids = {}
    /\ _name = [p \in Printers |-> None]
    /\ pi = 1
    /\ offset = 0
    /\ all_print_jobs = <<>>
    /\ requests = <<>>
    /\ trace = NoTrace
    /\ prev = Outcome(NoTrace)
    /\ created = "no"
    /\ faults = 0

\* main(): UltimakerLogger.__init__ (lines 70-76), then collect_logs up to
\* the head of its for loop.
Construct ==
    /\ pc = "idle"
    /\ run < MaxRuns
    /\ \E read_ok \in BOOLEAN :
          /\ (~csv.exists => read_ok)
          /\ Fails(IF read_ok THEN 0 ELSE 1)
          /\ existing_uuids' = _load_existing_uuids(csv, read_ok)
          /\ trace' = [NoTrace EXCEPT !.start_csv = csv, !.start_sheet = sheet,
                                      !.read_ok = read_ok,
                                      !.known = _load_existing_uuids(csv, read_ok)]
    /\ run' = run + 1
    /\ prev' = Outcome(trace)
    /\ _name' = [p \in Printers |-> None]
    /\ all_print_jobs' = <<>>
    /\ requests' = <<>>
    /\ pi' = 1
    /\ offset' = 0
    /\ pc' = "name"
    /\ UNCHANGED <<history, device, csv, sheet, created>>

\* printer_name = printer.name (line 114): the first read of the property,
\* which sends GET system; and offset = 0 (line 117).
ResolveName ==
    /\ pc = "name"
    /\ \E wire \in {"fail", device[pi]} :
          LET nr == NameRead(pi, _name[pi], wire)
          IN  /\ Fails(IF nr.sent /\ wire = "fail" THEN 1 ELSE 0)
              /\ _name' = [_name EXCEPT ![pi] = nr.value]
              /\ requests' = IF nr.sent
                              THEN Append(requests, Request(pi, "system", 0, 0, 0, -1))
                              ELSE requests
              /\ trace' = [trace EXCEPT !.line114[pi] =
                              << [ value |-> nr.value,
                                   wire  |-> IF nr.sent THEN wire ELSE "cached" ] >>]
    /\ offset' = 0
    /\ pc' = "page"
    /\ UNCHANGED <<run, history, device, csv, sheet, existing_uuids, pi,
                   all_print_jobs, prev, created>>

\* A collect_logs that goes to the sink step after every printer.
LoopEnds_SinkPerPrinter ==
    pi' = pi /\ pc' = "sink"

\* The for loop moves on to the next printer, or ends (lines 112, 136).
LoopEnds ==
    IF pi < Len(printer_ips)
    THEN pi' = pi + 1 /\ pc' = "name"
    ELSE pi' = pi /\ pc' = "sink"

\* A collect_logs that gives up on the first response that is not a list.
AfterFailure_Abort ==
    pi' = pi /\ pc' = "sink"

\* Line 122: a response that is not a list ends the printer's loop.
AfterFailure ==
    LoopEnds

\* An exhaustion test that is off by one.
PageExhausted_OffByOne(n) ==
    n <= BATCH_SIZE

\* Line 132: the page-exhaustion test, on the number of entries of the page.
PageExhausted(n) ==
    n < BATCH_SIZE

\* An offset that does not advance.
NextOffset_Stuck(o) ==
    o

\* An offset that advances by one entry too few.
NextOffset_Overlap(o) ==
    o + BATCH_SIZE - 1

\* Line 134.
NextOffset(o) ==
    o + BATCH_SIZE

\* One iteration of the while loop (lines 118-134): the request, the for
\* loop over the page, the exhaustion test.  answered = FALSE is a request
\* that make_request turns into {} (line 50) or an answer that is not a list.
FetchPage ==
    /\ pc = "page"
    /\ \E answered \in BOOLEAN :
          LET page == PageOf(history[pi], offset, BATCH_SIZE)
              req  == Request(pi, "history", offset, BATCH_SIZE,
                              IF answered THEN Len(page) ELSE -1, -1)
          IN  IF ~answered
              THEN /\ Fails(1)
                   /\ requests' = Append(requests, req)
                   /\ AfterFailure
                   /\ trace' = [trace EXCEPT !.unanswered = @ + 1]
                   /\ UNCHANGED <<all_print_jobs, offset, _name>>
              ELSE \E st \in ProcessPage(pi, page,
                                 { [ batch |-> all_print_jobs, name |-> _name[pi],
                                     reqs |-> <<>>, nfail |-> 0, steps |-> <<>> ] }) :
                   /\ Fails(st.nfail)
                   /\ requests' = Append(requests, req) \o st.reqs
                   /\ all_print_jobs' = st.batch
                   /\ _name' = [_name EXCEPT ![pi] = st.name]
                   /\ trace' = [trace EXCEPT !.normalized[pi] = @ \o page,
                                             !.steps[pi] = @ \o st.steps]
                   /\ IF PageExhausted(Len(page))
                      THEN LoopEnds /\ offset' = offset
                      ELSE offset' = NextOffset(offset) /\ UNCHANGED <<pi, pc>>
    /\ UNCHANGED <<run, history, device, csv, sheet, existing_uuids, prev, created>>

\* Line 136 with an empty batch: collect_logs returns.
NoNewJobs ==
    /\ pc = "sink"
    /\ all_print_jobs = <<>>
    /\ pc' = "idle"
    /\ UNCHANGED <<run, history, device, csv, sheet, existing_uuids, _name, pi, offset,
                   all_print_jobs, requests, trace, prev, created, faults>>

\* What lines 184-189 write: the header when the file did not exist, then
\* one row per record.
RECURSIVE CsvRows(_)
CsvRows(print_jobs) ==
    IF print_jobs = <<>> THEN <<>>
    ELSE <<CsvRow(Head(print_jobs))>> \o CsvRows(Tail(print_jobs))

\* A _save_jobs that writes the header at every save.
LogContent_AlwaysHeader(file_exists, print_jobs) ==
    <<HeaderRow>> \o CsvRows(print_jobs)

LogContent(file_exists, print_jobs) ==
    (IF file_exists THEN <<>> ELSE <<HeaderRow>>) \o CsvRows(print_jobs)

\* A _save_jobs that opens the file with mode 'w' whether it exists or not.
WriteLog_Truncate(file, content, k) ==
    [exists |-> TRUE, rows |-> SubSeq(content, 1, k)]

\* The file after lines 184-189 when open() succeeded and k rows reached the
\* file: mode 'a' keeps what the file held, mode 'w' is used only for a file
\* that did not exist.
WriteLog(file, content, k) ==
    [exists |-> TRUE, rows |-> file.rows \o SubSeq(content, 1, k)]

\* The number of append_rows calls of a mirror call that meets no failure
\* (line 210: range(0, len(rows), batch_size)).
NumBatches(n) ==
    (n + batch_size - 1) \div batch_size

\* Line 207: the row of one record, its cells in the order of fieldnames.
SheetRow(job) ==
    [i \in DOMAIN fieldnames |-> job[fieldnames[i]]]

SheetRows(print_jobs) ==
    [i \in DOMAIN print_jobs |-> SheetRow(print_jobs[i])]

\* Line 211: the j-th batch, rows[i:i+batch_size] for i = (j-1)*batch_size.
BatchOf(rows, j) ==
    SubSeq(rows, (j - 1) * batch_size + 1, Min(Len(rows), j * batch_size))

\* A mirror that sleeps after every append_rows, the last one too.
RECURSIVE MirrorCalls_SleepAfterEach(_, _)
MirrorCalls_SleepAfterEach(rows, m) ==
    IF m = 0 THEN <<>>
    ELSE MirrorCalls_SleepAfterEach(rows, m - 1)
         \o << [op |-> "append_rows", rows |-> BatchOf(rows, m)],
               [op |-> "sleep", rows |-> <<>>] >>

\* The calls of the for loop of lines 210-214 whose first m append_rows
\* returned: each batch, and time.sleep(1) after it when rows are left
\* (line 213: i + batch_size < len(rows)).
RECURSIVE MirrorCalls(_, _)
MirrorCalls(rows, m) ==
    IF m = 0 THEN <<>>
    ELSE MirrorCalls(rows, m - 1)
         \o << [op |-> "append_rows", rows |-> BatchOf(rows, m)] >>
         \o (IF m * batch_size < Len(rows)
             THEN << [op |-> "sleep", rows |-> <<>>] >>
             ELSE <<>>)

\* The rows the calls appended, in order.
RECURSIVE Appended(_)
Appended(calls) ==
    IF calls = <<>> THEN <<>>
    ELSE Head(calls).rows \o Appended(Tail(calls))

\* The spreadsheet after the first m batches were appended (lines 210-212).
MirrorRows(rows, print_jobs, m) ==
    rows \o Appended(MirrorCalls(SheetRows(print_jobs), m))

\* A _save_jobs that mirrors whatever became of the log write.
MirrorAttempted_Always(write_ok) ==
    TRUE

\* Whether _save_jobs goes on to the mirror (line 192): only when lines
\* 184-189 raised nothing.
MirrorAttempted(write_ok) ==
    write_ok

\* Whether _save_jobs raises: an error of the log write is caught at line 196,
\* an error of the mirror at line 216.
SaveRaises(write_ok, mirror_ok) ==
    FALSE

\* Line 137: _save_jobs (lines 175-197) with _update_google_sheets (lines
\* 199-217).  opened = FALSE: open() raises.  k: the rows that reached the
\* file before an error, all of them when there was none.  m: the batches
\* the spreadsheet took before an error (0 also for an error of the
\* credentials or of opening the sheet), all of them when there was none.
SaveJobs ==
    /\ pc = "sink"
    /\ all_print_jobs # <<>>
    /\ LET content == LogContent(csv.exists, all_print_jobs)
           nb      == NumBatches(Len(all_print_jobs))
       IN  \E opened \in BOOLEAN, k \in 0..Len(content), m \in 0..nb :
             LET write_ok == opened /\ k = Len(content)
                 mirrored == MirrorAttempted(write_ok)
             IN  /\ (~opened => k = 0)
                 /\ Fails((IF write_ok THEN 0 ELSE 1)
                          + (IF mirrored /\ m < nb THEN 1 ELSE 0))
                 /\ (~mirrored => m = 0)
                 /\ csv' = IF opened THEN WriteLog(csv, content, k) ELSE csv
                 /\ created' = IF csv.exists \/ ~opened THEN created
                               ELSE IF k = 0 THEN "bare" ELSE "header"
                 /\ sheet' = IF mirrored THEN MirrorRows(sheet, all_print_jobs, m)
                             ELSE sheet
                 /\ trace' = [trace EXCEPT
                                !.saved = TRUE,
                                !.saves = @ + 1,
                                !.mirror_calls =
                                    IF mirrored
                                    THEN MirrorCalls(SheetRows(all_print_jobs), m)
                                    ELSE <<>>,
                                !.batch = all_print_jobs,
                                !.csv_before = csv,
                                !.write = IF write_ok THEN "ok" ELSE "failed",
                                !.mirror = IF ~mirrored THEN "none"
                                           ELSE IF m = nb THEN "ok" ELSE "failed",
                                !.raised = SaveRaises(write_ok, m = nb)]
    /\ pc' = "idle"
    /\ UNCHANGED <<run, history, device, existing_uuids, _name, pi, offset,
                   all_print_jobs, requests, prev>>

\* Entries for the run that looks at the normalizer: a job with timestamps,
\* an amount and a material; a job still printing; an entry that is not a
\* dict; a start timestamp that does not parse; an empty start and a finish
\* that does not parse; an amount that is not a number; a negative amount
\* with an empty guid in slot 0 and none in slot 1; a material element
\* without text in slot 0; and lookups that bring no name.
GoodJob ==
    [RawJob("u1", "Finished") EXCEPT
        !.datetime_started = "2024-01-15T02:30:00Z",
        !.datetime_finished = "2024-07-01T12:00:00Z",
        !.material_0_amount = Num(3),
        !.material_0_guid = "g-pla"]

DetailPool ==
    { GoodJob,
      [RawJob("u2", "Printing") EXCEPT !.material_0_guid = "g-pla"],
      [RawJob(None, None) EXCEPT !.kind = "other"],
      [RawJob("u3", "Finished") EXCEPT !.datetime_started = "yesterday"],
      [RawJob("u4", "Aborted") EXCEPT !.datetime_started = "",
                                      !.datetime_finished = "soon",
                                      !.material_1_guid = "g-dict"],
      [RawJob("u5", "Finished") EXCEPT !.material_1_amount = TextAmount,
                                       !.material_0_guid = "g-pla"],
      [RawJob("u6", "Finished") EXCEPT !.material_0_amount = Num(-5),
                                       !.material_0_guid = ""],
      [RawJob("u7", "Finished") EXCEPT !.material_0_guid = "g-notext",
                                       !.material_1_guid = "g-pla"],
      [RawJob("u8", "Aborted") EXCEPT !.material_0_guid = "g-junk",
                                      !.material_1_guid = "g-nomat"] }

\* The record an earlier run made of GoodJob, and a log and a spreadsheet
\* that hold it.
GoodRecord ==
    TryBlock(1, GoodJob, ReportedName(1),
             [system |-> "named", m0 |-> FALSE, m1 |-> FALSE]).out[1]

KnownLog == [exists |-> TRUE, rows |-> <<HeaderRow, CsvRow(GoodRecord)>>]

\* Before the last run of a behaviour, with a first printer whose history is
\* at most one page of the entries above and whose system document is any
\* of SystemResponses, and a log that is absent or holds the record of
\* GoodJob.
DetailInit ==
    /\ pc = "idle"
    /\ run = MaxRuns - 1
    /\ \E h \in SeqsUpTo(DetailPool, BATCH_SIZE) :
          history = [p \in Printers |-> IF p = 1 THEN h ELSE <<>>]
    /\ \E d \in SystemResponses :
          device = [p \in Printers |-> IF p = 1 THEN d ELSE "named"]
    /\ \E known \in BOOLEAN :
          /\ csv = IF known THEN KnownLog ELSE NoFile
          /\ sheet = IF known THEN <<SheetRow(GoodRecord)>> ELSE <<>>
          /\ created = IF known THEN "header" ELSE "no"
    /\ existing_uuids = {}
    /\ _name = [p \in Printers |-> None]
    /\ pi = 1
    /\ offset = 0
    /\ all_print_jobs = <<>>
    /\ requests = <<>>
    /\ trace = NoTrace
    /\ prev = Outcome(NoTrace)
    /\ faults = 0

Next ==
    \/ Construct
    \/ ResolveName
    \/ FetchPage
    \/ NoNewJobs
    \/ SaveJobs

Spec == Init /\ [][Next]_vars

\* The same program from DetailInit.
DetailSpec == DetailInit /\ [][Next]_vars

\* Before the last run of a behaviour, with printers whose histories are up
\* to two full pages and a short one of the same finished job, and no log.
LongInit ==
    /\ pc = "idle"
    /\ run = MaxRuns - 1
    /\ \E n \in [Printers -> 0..(2 * BATCH_SIZE + 1)] :
          history = [p \in Printers |->
                        [i \in 1..n[p] |-> RawJob("u1", "Finished")]]
    /\ device = [p \in Printers |-> "named"]
    /\ csv = NoFile
    /\ sheet = <<>>
    /\ created = "no"
    /\ existing_uuids = {}
    /\ _name = [p \in Printers |-> None]
    /\ pi = 1
    /\ offset = 0
    /\ all_print_jobs = <<>>
    /\ requests = <<>>
    /\ trace = NoTrace
    /\ prev = Outcome(NoTrace)
    /\ faults = 0

\* The program from LongInit, with a process that is not stopped while it
\* has a step to take: a run that has begun goes on with its next request
\* or with the sink step.  Nothing obliges main() to be started.
FairSpec ==
    /\ LongInit
    /\ [][Next]_vars
    /\ WF_vars(ResolveName \/ FetchPage \/ NoNewJobs \/ SaveJobs)

(***************************************************************************)
(* Properties.                                                             *)
(***************************************************************************)
Terminal == {"Finished", "Aborted"}

IsPrefix(s, t) ==
    Len(s) <= Len(t) /\ SubSeq(t, 1, Len(s)) = s

\* The run is past its for loop: at line 136, or returned.
RunEnded ==
    pc = "sink" \/ (pc = "idle" /\ requests # <<>>)

\* The uuids of the records collected so far in this run.
BatchUuids ==
    { all_print_jobs[i].uuid : i \in DOMAIN all_print_jobs }

\* The log begins with the header row.
HasHeader(file) ==
    file.rows # <<>> /\ Head(file.rows) = HeaderRow

\* The non-empty uuids of the data rows of a log.
RowUuids(file) ==
    { file.rows[i].uuid :
        i \in { j \in DOMAIN file.rows : file.rows[j] # HeaderRow } } \ {""}

\* The job of uuid u was passed to the normalizer in this run.
Normalized(u, r) ==
    \E p \in Printers : \E i \in DOMAIN trace.normalized[p] :
        trace.normalized[p][i] = RawJob(u, r)

SecondRunEnded ==
    pc = "idle" /\ run >= 2

\* Every job of the histories carries a non-empty uuid.
AllJobsHaveUuid ==
    \A p \in Printers : \A i \in DOMAIN history[p] :
        history[p][i].uuid \notin {None, ""}

C3_NoDuplicateUuids ==
    pc = "sink" =>
        \A i, j \in DOMAIN all_print_jobs :
            (i # j /\ all_print_jobs[i].uuid # "")
                => all_print_jobs[i].uuid # all_print_jobs[j].uuid

\* C4: every record collected, and every data row of the log, has result
\* Finished or Aborted.
C4_OnlyTerminalResults ==
    /\ \A i \in DOMAIN all_print_jobs : all_print_jobs[i].result \in Terminal
    /\ \A i \in DOMAIN csv.rows :
          csv.rows[i] = HeaderRow \/ csv.rows[i].result \in Terminal

\* A run that normalized a job with another result and one without a result,
\* and appended rows to the log.
C4_Witness ==
    /\ pc = "idle"
    /\ trace.saved /\ trace.write = "ok"
    /\ Len(csv.rows) >= 2
    /\ \E p \in Printers : \E i \in DOMAIN trace.normalized[p] :
          trace.normalized[p][i].result = None

\* The history requests sent to printer p in this run, in order.
HistoryRequests(p) ==
    SelectSeq(requests, LAMBDA r : r.printer = p /\ r.endpoint = "history")

\* The pagination loop of printer p has ended in this run.
LoopEnded(p) ==
    RunEnded \/ (run > 0 /\ pc \in {"name", "page"} /\ p < pi)

\* C5: the k-th history request to a printer has offset (k-1)*BATCH_SIZE and
\* count BATCH_SIZE; every response but the last was a full page; a loop that
\* has ended sent a request whose response was not a full page (fewer
\* entries, or -1 for a failure).
C5_Pagination ==
    \A p \in Printers :
        LET hs == HistoryRequests(p)
        IN  /\ \A k \in DOMAIN hs :
                  /\ hs[k].offset = (k - 1) * BATCH_SIZE
                  /\ hs[k].count = BATCH_SIZE
                  /\ (k < Len(hs) => hs[k].got = BATCH_SIZE)
            /\ LoopEnded(p) => (hs # <<>> /\ hs[Len(hs)].got < BATCH_SIZE)

\* A printer whose loop ended at its third request.
C5_Witness ==
    \E p \in Printers :
        /\ LoopEnded(p)
        /\ Len(HistoryRequests(p)) = 3
        /\ HistoryRequests(p)[3].offset = 2 * BATCH_SIZE

\* C6: a printer of n jobs that answered every request got n \div BATCH_SIZE
\* + 1 history requests, and the jobs passed to the normalizer are its n
\* jobs, each once, in order.
C6_RequestsAndJobs ==
    \A p \in Printers :
        LET hs == HistoryRequests(p)
        IN  (LoopEnded(p) /\ \A k \in DOMAIN hs : hs[k].got # -1)
                => /\ Len(hs) = (Len(history[p]) \div BATCH_SIZE) + 1
                   /\ trace.normalized[p] = history[p]

\* A printer of two full pages and a short one that answered every request.
C6_Witness ==
    \E p \in Printers :
        /\ LoopEnded(p)
        /\ Len(history[p]) = 2 * BATCH_SIZE + 1
        /\ Len(HistoryRequests(p)) = 3
        /\ \A k \in DOMAIN HistoryRequests(p) : HistoryRequests(p)[k].got # -1

\* The records the normalizer returned for the entries of a step log whose
\* uuid was not a known one at construction, in order.
RECURSIVE NewRecords(_)
NewRecords(steps) ==
    IF steps = <<>> THEN <<>>
    ELSE (IF Head(steps).out # <<>> /\ Head(steps).job.uuid \notin trace.known
          THEN Head(steps).out ELSE <<>>)
         \o NewRecords(Tail(steps))

\* The new records of the pages fetched in this run from printers 1..n, in
\* order.
RECURSIVE CollectedUpTo(_)
CollectedUpTo(n) ==
    IF n = 0 THEN <<>>
    ELSE CollectedUpTo(n - 1) \o NewRecords(trace.steps[n])

\* C7: whatever requests failed, at the end of the for loop every printer
\* has had its system request and a history request sent, and the batch holds
\* the new records of every page that was fetched; that batch is the one
\* _save_jobs gets.
C7_FailureIsolated ==
    RunEnded =>
        /\ \A p \in Printers :
              /\ \E k \in DOMAIN requests :
                    requests[k].printer = p /\ requests[k].endpoint = "system"
              /\ HistoryRequests(p) # <<>>
        /\ all_print_jobs = CollectedUpTo(Len(printer_ips))
        /\ (trace.saved => trace.batch = all_print_jobs)

\* The second page request of printer 1 failed; the batch holds records of
\* its first page and of printer 2.
C7_Witness ==
    /\ pc = "sink"
    /\ \E k \in DOMAIN requests :
          /\ requests[k].printer = 1
          /\ requests[k].got = -1
          /\ requests[k].offset = BATCH_SIZE
    /\ \E i, j \in DOMAIN all_print_jobs :
          /\ all_print_jobs[i].printer_name = _name[1]
          /\ all_print_jobs[j].printer_name = _name[2]

\* C8: in a save, the mirror was attempted only if the log write completed;
\* after a log write that failed the spreadsheet is as it was; after a mirror
\* that failed the log holds everything the save wrote; _save_jobs does not
\* raise.
C8_MirrorAfterLog ==
    (pc = "idle" /\ trace.saved) =>
        /\ (trace.write = "failed" =>
                (trace.mirror = "none" /\ sheet = trace.start_sheet))
        /\ (trace.mirror = "failed" =>
                csv.rows = trace.csv_before.rows
                           \o LogContent(trace.csv_before.exists, trace.batch))
        /\ ~trace.raised

\* A save whose mirror failed after its first batch.
C8_Witness ==
    /\ pc = "idle"
    /\ trace.saved
    /\ trace.write = "ok"
    /\ trace.mirror = "failed"
    /\ Len(sheet) > Len(trace.start_sheet)
    /\ Len(csv.rows) = Len(trace.batch) + 1

\* The header row is the first row of the log and no other row of it.
HeaderOnceFirst(file) ==
    /\ HasHeader(file)
    /\ \A i \in 2..Len(file.rows) : file.rows[i] # HeaderRow

C10_AppendOnly ==
    /\ IsPrefix(trace.start_csv.rows, csv.rows)
    /\ (trace.start_csv.exists => csv.exists)
    /\ (trace.saved => IsPrefix(trace.csv_before.rows, csv.rows))
    /\ ((RunEnded /\ all_print_jobs = <<>>) =>
            (~trace.saved /\ csv = trace.start_csv /\ sheet = trace.start_sheet))

\* A save onto a log that already held data rows.
C10_Witness ==
    /\ pc = "idle"
    /\ trace.saved
    /\ Len(trace.csv_before.rows) >= 2
    /\ Len(csv.rows) > Len(trace.csv_before.rows)
    /\ trace.csv_before.rows[2].uuid = "u1"

\* C11: _save_jobs is called at most once in a run; until the for loop over
\* the printers has ended it has not been called and the log and the
\* spreadsheet are as the run found them; and when it has been called, every
\* printer has had its last history request (one whose response was not a
\* full page) and the batch it got holds the new records of all printers.
C11_SinkOnceAtEnd ==
    /\ trace.saves <= 1
    /\ (pc \in {"name", "page", "sink"}
          => /\ trace.saves = 0
             /\ trace.mirror_calls = <<>>
             /\ csv = trace.start_csv
             /\ sheet = trace.start_sheet)
    /\ (trace.saves = 1
          => /\ pc = "idle"
             /\ \A p \in Printers :
                   LET hs == HistoryRequests(p)
                   IN  hs # <<>> /\ hs[Len(hs)].got < BATCH_SIZE
             /\ trace.batch = CollectedUpTo(Len(printer_ips)))

\* One save, written and mirrored, of a batch that holds records of both
\* printers.
C11_Witness ==
    /\ trace.saves = 1
    /\ trace.write = "ok" /\ trace.mirror = "ok"
    /\ \E i, j \in DOMAIN trace.batch :
          /\ i < j
          /\ trace.batch[i].printer_name = trace.line114[1][1].value
          /\ trace.batch[j].printer_name = trace.line114[2][1].value

\* The system requests sent to printer p in this run.
SystemRequests(p) ==
    SelectSeq(requests, LAMBDA r : r.printer = p /\ r.endpoint = "system")

\* What the reads of printer.name of a step log returned, in order.
RECURSIVE ReadsOf(_)
ReadsOf(steps) ==
    IF steps = <<>> THEN <<>>
    ELSE Head(steps).read \o ReadsOf(Tail(steps))

\* What every read of p's name returned in this run: the one of line 114,
\* then those of line 159.
NameReads(p) ==
    trace.line114[p] \o ReadsOf(trace.steps[p])

\* C12: in a run at most one system request is sent to a printer, whatever
\* it brings and however many jobs are normalized, and every read of the
\* printer's name returns what the first read returned.
C12_OneSystemRequest ==
    \A p \in Printers :
        /\ Len(SystemRequests(p)) <= 1
        /\ \A i \in DOMAIN NameReads(p) :
              NameReads(p)[i].value = NameReads(p)[1].value

\* C13: a read of printer.name whose system request failed in transit,
\* brought a body that is not JSON, a JSON value that is not a dict, or a
\* dict without a name key, returned "Printer-<address>"; the read raises
\* in no case, so the run goes on to the printer's history.
C13_NameFallback ==
    \A p \in Printers :
        /\ \A i \in DOMAIN NameReads(p) :
              NameReads(p)[i].wire \in {"fail", "malformed", "nondict", "noname"}
                  => NameReads(p)[i].value = SyntheticName(p)
        /\ (trace.line114[p] # <<>> /\ (pi > p \/ RunEnded))
              => HistoryRequests(p) # <<>>

\* The first printer's system request brought a body that is not JSON; its
\* records carry the synthetic name.
C13_Witness ==
    /\ pc = "idle"
    /\ trace.line114[1] = << [value |-> "Printer-ip1", wire |-> "malformed"] >>
    /\ trace.saved
    /\ \A i \in DOMAIN trace.batch : trace.batch[i].printer_name = "Printer-ip1"

\* The entries of the pages fetched in this run that were terminal jobs,
\* with what the for loop did with each.
TerminalSteps ==
    { st \in UNION { { trace.steps[p][i] : i \in DOMAIN trace.steps[p] } :
                       p \in Printers } :
        st.job.kind = "dict" /\ st.job.result \in Terminal }

\* The guid of a slot of a raw job, None when the key is missing.
GuidOf(job, slot) ==
    IF slot = 0 THEN job.material_0_guid ELSE job.material_1_guid

\* The material name of a slot of a record.
MaterialNameOf(rec, slot) ==
    IF slot = 0 THEN rec.material_0_name ELSE rec.material_1_name

\* The materials requests of a step for a slot.
MaterialRequests(st, slot) ==
    SelectSeq(st.reqs, LAMBDA r : r.endpoint = "materials" /\ r.slot = slot)

\* C14: for a terminal job and either slot, when the slot's guid is empty or
\* missing no materials request is sent for the slot, and the record, if
\* one is made, names the slot's material "Unknown".
C14_EmptyGuid ==
    \A st \in TerminalSteps : \A slot \in {0, 1} :
        GuidOf(st.job, slot) \in {None, ""}
            => /\ MaterialRequests(st, slot) = <<>>
               /\ (st.out # <<>> => MaterialNameOf(st.out[1], slot) = "Unknown")

\* A job with an empty guid in slot 0 and none in slot 1 became a record
\* without any materials request, and a job with a guid in slot 0 only had
\* one request, for slot 0.
C14_Witness ==
    /\ \E st \in TerminalSteps :
          /\ st.job.material_0_guid = "" /\ st.job.material_1_guid = None
          /\ st.out # <<>>
          /\ st.out[1].material_0_name = "Unknown"
          /\ st.out[1].material_1_name = "Unknown"
          /\ st.out[1].material_0_amount = 0
          /\ st.reqs = <<>>
    /\ \E st \in TerminalSteps :
          /\ st.job.material_0_guid = "g-pla" /\ st.job.material_1_guid = None
          /\ st.out # <<>>
          /\ st.out[1].material_0_name = "PLA"
          /\ Len(MaterialRequests(st, 0)) = 1

\* The records the normalizer returned for the entries of a step log.
RECURSIVE RecordsOf(_)
RecordsOf(steps) ==
    IF steps = <<>> THEN <<>>
    ELSE Head(steps).out \o RecordsOf(Tail(steps))

\* The records the normalizer returned in this run, in the order the
\* entries were met: printer by printer, page by page.
RECURSIVE Encountered(_)
Encountered(n) ==
    IF n = 0 THEN <<>>
    ELSE Encountered(n - 1) \o RecordsOf(trace.steps[n])

\* C15: existing_uuids is what __init__ loaded, all through the run; every
\* entry of a page that was fetched went through the for loop, in order; and
\* the batch is the records the normalizer returned whose uuid is not in
\* that set, none left out, in the order they were met.
C15_BatchIsNewSubsequence ==
    /\ existing_uuids = trace.known
    /\ \A p \in Printers :
          /\ Len(trace.steps[p]) = Len(trace.normalized[p])
          /\ \A i \in DOMAIN trace.steps[p] :
                trace.steps[p][i].job = trace.normalized[p][i]
    /\ all_print_jobs =
          SelectSeq(Encountered(Len(printer_ips)),
                    LAMBDA r : r.uuid \notin trace.known)
    /\ (trace.saved => trace.batch = all_print_jobs)

\* A run that knew a uuid at construction, met a record of that uuid and
\* records of both printers, and collected two or more.
C15_Witness ==
    /\ pc = "sink"
    /\ trace.known # {}
    /\ \E i \in DOMAIN Encountered(Len(printer_ips)) :
          Encountered(Len(printer_ips))[i].uuid \in trace.known
    /\ Len(all_print_jobs) >= 2
    /\ \E i, j \in DOMAIN all_print_jobs :
          all_print_jobs[i].printer_name # all_print_jobs[j].printer_name

\* The requests a printer's loop can still send from offset o: one per
\* full page left, and the one that finds a page that is not full.
PagesLeft(p, o) ==
    ((Len(history[p]) - o) \div BATCH_SIZE) + 1

\* The steps of Next the run can still take at most: the sink step, and for
\* the printer the loop is at and each one after it the name and the pages.
RECURSIVE StepsLeftFrom(_)
StepsLeftFrom(p) ==
    IF p > Len(printer_ips) THEN 0
    ELSE 1 + PagesLeft(p, 0) + StepsLeftFrom(p + 1)

StepsLeft ==
    CASE pc = "idle" -> 0
      [] pc = "sink" -> 1
      [] pc = "name" -> 1 + StepsLeftFrom(pi)
      [] pc = "page" -> 1 + PagesLeft(pi, offset) + StepsLeftFrom(pi + 1)

\* C16: collect_logs terminates.  Every printer of the model answers with
\* a short, empty or failed page once its history is used up; every step of
\* a run that has begun lowers the number of steps it can still take, and a
\* run that has begun and goes on reaches its end.
C16_Terminates ==
    /\ [][pc # "idle" => (StepsLeft' < StepsLeft /\ StepsLeft' >= 0)]_vars
    /\ ((pc # "idle") ~> (pc = "idle"))

\* A run that has ended after three history requests to one printer, the
\* first two answered with full pages.
C16_Witness ==
    /\ pc = "idle"
    /\ \E p \in Printers :
          /\ Len(HistoryRequests(p)) = 3
          /\ HistoryRequests(p)[1].got = BATCH_SIZE
          /\ HistoryRequests(p)[2].got = BATCH_SIZE

\* An entry the claim counts as skipped: not a dict, a result that is not
\* terminal, a start timestamp that does not parse, an amount that is not
\* a number.
Skipped(job) ==
    \/ job.kind # "dict"
    \/ job.result \notin Terminal
    \/ job.datetime_started \notin {None, ""} \cup IsoTimestamps
    \/ job.material_0_amount.kind = "text"
    \/ job.material_1_amount.kind = "text"

\* An entry whose material lookup raises (see C18).
LookupRaises(job) ==
    "g-notext" \in {job.material_0_guid, job.material_1_guid}

\* C17: every entry of a fetched page goes through the for loop, whatever
\* became of the entries before it: a skipped entry yields no record, every
\* other dict is passed to the normalizer and its record is kept exactly
\* when its uuid is not a known one; and a page counts as full by its raw
\* entries: a request that brought BATCH_SIZE entries, skipped ones
\* included, is followed by the next one.
C17_SkipOnlyThatEntry ==
    \A p \in Printers :
        LET hs == HistoryRequests(p)
        IN  /\ Len(trace.steps[p]) = Len(trace.normalized[p])
            /\ \A i \in DOMAIN trace.steps[p] :
                  LET st == trace.steps[p][i]
                  IN  /\ st.job = trace.normalized[p][i]
                      /\ (st.job.kind = "dict" <=> st.called)
                      /\ (Skipped(st.job) => (st.out = <<>> /\ ~st.kept))
                      /\ ((~Skipped(st.job) /\ ~LookupRaises(st.job))
                            => /\ st.out # <<>>
                               /\ (st.kept <=> st.job.uuid \notin trace.known))
            /\ \A k \in DOMAIN hs :
                  /\ hs[k].got \in {-1, Len(PageOf(history[p], hs[k].offset, BATCH_SIZE))}
                  /\ (k < Len(hs) => hs[k].got = BATCH_SIZE)
                  /\ ((k = Len(hs) /\ LoopEnded(p)) => hs[k].got < BATCH_SIZE)

\* A full page whose first entry was skipped and whose last entry was known:
\* the last entry was normalized and dropped as known, and the next page
\* was asked for.
C17_Witness ==
    /\ RunEnded
    /\ Len(HistoryRequests(1)) = 2
    /\ HistoryRequests(1)[1].got = BATCH_SIZE
    /\ Len(trace.steps[1]) = BATCH_SIZE
    /\ Skipped(trace.steps[1][1].job)
    /\ trace.steps[1][1].job.datetime_started = "yesterday"
    /\ LET st == trace.steps[1][BATCH_SIZE]
       IN  st.called /\ st.out # <<>> /\ ~st.kept /\ st.job.uuid \in trace.known

\* The materials request of a slot was sent and failed in transit.
LookupFailed(st, slot) ==
    /\ MaterialRequests(st, slot) # <<>>
    /\ IF slot = 0 THEN st.w.m0 ELSE st.w.m1

\* C18: a material lookup never costs the record: a terminal job that is
\* not skipped for its timestamps or amounts becomes a record, and the
\* record names a slot's material "Unknown" when the slot's request failed
\* or brought anything but a document with a material element that has
\* text.
C18_LookupNeverDrops ==
    \A st \in TerminalSteps :
        ~Skipped(st.job)
            => /\ st.out # <<>>
               /\ \A slot \in {0, 1} :
                     (\/ LookupFailed(st, slot)
                      \/ GuidOf(st.job, slot) \in
                            {"g-dict", "g-junk", "g-nomat", "g-notext"})
                         => MaterialNameOf(st.out[1], slot) = "Unknown"

\* A timestamp of a raw job that is empty, missing, or does not parse.
Unusable(ts) ==
    ts \notin IsoTimestamps

\* C19: a terminal job whose start or finish timestamp is empty or does not
\* parse still becomes a record (when its amounts are numbers and no
\* material lookup raises), and the localized field of that timestamp is
\* the empty string.
C19_BadTimestampBlank ==
    \A st \in TerminalSteps :
        ( /\ st.job.material_0_amount.kind # "text"
          /\ st.job.material_1_amount.kind # "text"
          /\ ~LookupRaises(st.job)
          /\ (Unusable(st.job.datetime_started) \/ Unusable(st.job.datetime_finished)) )
            => /\ st.out # <<>>
               /\ (Unusable(st.job.datetime_started)
                     => st.out[1].datetime_started = "")
               /\ (Unusable(st.job.datetime_finished)
                     => st.out[1].datetime_finished = "")

\* The append_rows calls of a sequence of mirror calls.
Appends(calls) ==
    SelectSeq(calls, LAMBDA c : c.op = "append_rows")

\* The cells of a record in the order of the log's fields.
InFieldOrder(rec) ==
    << rec.uuid, rec.printer_name, rec.date, rec.datetime_started,
       rec.datetime_finished, rec.result, rec.material_0_amount,
       rec.material_1_amount, rec.material_0_name, rec.material_1_name >>

\* C20: a mirror call of n records that met no failure made ceil(n /
\* batch_size) append_rows calls, each of batch_size rows but the last, which
\* has the rest; the rows appended are the records in order, their cells in
\* the order of the log's fields; and the calls alternate append_rows and
\* sleep, beginning and ending with an append_rows.
C20_MirrorBatches ==
    trace.mirror = "ok" =>
        LET calls == trace.mirror_calls
            apps  == Appends(calls)
            n     == Len(trace.batch)
            rows  == Appended(apps)
        IN  /\ (Len(apps) - 1) * batch_size < n
            /\ n <= Len(apps) * batch_size
            /\ \A k \in DOMAIN apps :
                  /\ Len(apps[k].rows) <= batch_size
                  /\ Len(apps[k].rows) >= 1
                  /\ (k < Len(apps) => Len(apps[k].rows) = batch_size)
            /\ Len(rows) = n
            /\ \A i \in 1..n : rows[i] = InFieldOrder(trace.batch[i])
            /\ sheet = trace.start_sheet \o rows
            /\ Len(calls) = 2 * Len(apps) - 1
            /\ \A i \in DOMAIN calls :
                  calls[i].op = IF i % 2 = 1 THEN "append_rows" ELSE "sleep"

\* A mirror call of two full batches and a short one, with two sleeps.
C20_Witness ==
    /\ trace.mirror = "ok"
    /\ Len(trace.batch) = 2 * batch_size + 1
    /\ Len(Appends(trace.mirror_calls)) = 3
    /\ Len(trace.mirror_calls) = 5

====
